---- MODULE Spec2Model ----
(***************************************************************************)
(* Kokoro local TTS GUI: the synthesis orchestration of ui_main.py (one UI *)
(* thread with its posted-event queue, one worker thread per submission),  *)
(* the synthesis engine of tts_wrapper.py and the generation ledger of     *)
(* persistence.py (Spec, FairSpec); persistence.py, temp_cleanup.py and    *)
(* models.py as the window calls them, each under a specification of its   *)
(* own (PersistenceSpec, CleanupSpec, ModelsSpec).                         *)
(***************************************************************************)
EXTENDS Integers, Sequences, FiniteSets, TLC

\* ------------------------------------------------------------------ bounds
\* submissions (clicks on Synthesize with a non-empty text) in one session
MaxSubmissions == 2
\* items the pipeline generator yields for one text
MaxChunks == 2
\* clicks on "Clear Old Results" / "Clear Temp Files" in one session
MaxClears == 1

VARIABLES
    synth_button,              \* self.synth_button.isEnabled()
    workers,                   \* the run_synthesis threads, by submission number
    started,                   \* number of threads started so far
    synthesis_results,         \* self.synthesis_results, the in-memory ledger
    persist_file,              \* outputs/generations.json on disk
    files,                     \* the files present in temp_dir
    last_synthesis_timestamp,  \* tts_wrapper.last_synthesis_timestamp
    now,                       \* the wall clock when last read, in whole seconds
    ui_pc,                     \* where the UI thread is inside a handler
    ui_buf,                    \* the UI thread's open file buffer in save_generations
    ui_queue,                  \* the UI thread's queue of posted calls
    status_text,               \* the status bar's message
    current_filepath,          \* self.current_filepath
    widget_threads,            \* history: the threads that have run widget code
    clears,                    \* number of clear clicks so far
    save_failed,               \* history: a save_generations call caught an exception
    \* persistence.py called on its own: one save_generations, one load_generations
    generations_arg,           \* the list handed to save_generations
    file_path,                 \* the file at file_path
    loaded,                    \* what load_generations returned
    persistence_pc,            \* which of the two calls have returned
    \* temp_cleanup.py called on its own: one cleanup_temp_files call
    temp_dir,                  \* the directory: whether it exists, and its entries
    scan_index,                \* the position of the for loop in os.listdir's list
    cleanup_pc,                \* where the call is
    \* models.py as the application calls it, from the start of the process
    local_files,               \* the artifacts present in the working directory
    pipeline,                  \* models._pipeline
    fetches,                   \* history: the hf_hub_download calls made
    process,                   \* the process: starting, running, crashed
    last_call,                 \* the last build_model / load_voice call and its end
    load_calls                 \* number of load_voice calls made by synthesize

\* the window, its worker threads and the files they share
main_vars == <<synth_button, workers, started, synthesis_results, persist_file, files,
               last_synthesis_timestamp, now, ui_pc, ui_buf, ui_queue, status_text,
               current_filepath, widget_threads, clears, save_failed>>

persistence_vars == <<generations_arg, file_path, loaded, persistence_pc>>

cleanup_vars == <<temp_dir, scan_index, cleanup_pc>>

\* the modules the window calls, exercised on their own
models_vars == <<local_files, pipeline, fetches, process, last_call, load_calls>>

lib_vars == <<persistence_vars, cleanup_vars, models_vars>>

vars == <<main_vars, lib_vars>>

\* ------------------------------------------------------------------- paths
\* os.path.join(temp_dir, f"chunk_{timestamp}_{chunk_index}.wav")
ChunkPath(ts, idx) == [kind |-> "chunk_", ts |-> ts, idx |-> idx]

\* os.path.join(temp_dir, f"combined_{timestamp}.wav")
CombinedPath(ts) == [kind |-> "combined_", ts |-> ts, idx |-> 0]

\* Python's None where a path is expected
NonePath == [kind |-> "None", ts |-> 0, idx |-> 0]

\* the empty string "" where a path is expected
EmptyPath == [kind |-> "", ts |-> 0, idx |-> 0]

\* filename.startswith("chunk_")
StartsWithChunk(p) == p.kind = "chunk_"

\* time.strftime("%Y%m%d_%H%M%S"): the clock at one-second resolution
Strftime(t) == t

\* --------------------------------------------------------------- the ledger
\* an empty file: what open(file_path, "w") leaves behind
TruncatedFile == [size |-> 0, valid |-> FALSE, doc |-> <<>>]

\* no file at PERSIST_FILE
MissingFile == [size |-> -1, valid |-> FALSE, doc |-> <<>>]

RECURSIVE SumSeq(_)
SumSeq(s) == IF s = <<>> THEN 0 ELSE Head(s) + SumSeq(Tail(s))

\* the number of characters json.dump(generations, f, indent=2) writes, up to a
\* monotone scale: the brackets, and per record its three keys and its chunks
JsonSize(generations) ==
    2 + SumSeq([i \in 1..Len(generations) |-> 3 + Len(generations[i].chunks)])

\* with open(file_path, "w") ...: json.dump into the file object's buffer
JsonDump(generations) ==
    [size |-> JsonSize(generations), valid |-> TRUE, doc |-> generations]

\* closing the file object writes its buffer at offset 0 of the file as it is
\* then: a longer content written meanwhile by another writer keeps its tail
FlushInto(file, buf) ==
    IF buf.size >= file.size THEN buf
    ELSE [size |-> file.size, valid |-> FALSE, doc |-> <<>>]

\* persistence.load_generations
load_generations(file) ==
    IF file.size >= 0
    THEN IF file.valid THEN file.doc ELSE <<>>
    ELSE <<>>

\* a record of an earlier session, as found in generations.json at startup
OldGeneration ==
    [timestamp |-> 0,
     chunks |-> <<[graphemes |-> 0, phonemes |-> 0, filepath |-> ChunkPath(0, 0)]>>,
     combined |-> CombinedPath(0)]

\* ------------------------------------------------------------------ workers
NoResults == <<>>

\* a run_synthesis thread: its position, and the locals of run_synthesis and of
\* the synthesize call it makes (raw: what the generator has yielded so far;
\* written: the files its save_audio calls have written, in order)
IdleWorker ==
    [pc |-> "unstarted", raw |-> <<>>, result_list |-> <<>>, all_audio |-> <<>>,
     written |-> <<>>, results |-> NoResults, raised |-> "",
     buf |-> TruncatedFile, gen |-> <<>>]

\* the thread once run_synthesis has returned: its locals are gone
DoneWorker == [IdleWorker EXCEPT !.pc = "done"]

WorkerIds == 1..MaxSubmissions

Running(w) == workers[w].pc \notin {"unstarted", "done"}

\* the posted calls: QMetaObject.invokeMethod(..., Qt.QueuedConnection, ...) and
\* the cross-thread signal synthesis_finished_signal
Call(method, msg, path) == [method |-> method, msg |-> msg, path |-> path]

\* what the clock can show when synthesize reads it: the second it showed at the
\* last reading, or a later one (only whether two readings fall in the same
\* second matters to the file names)
ClockReadings == {now, now + 1}

ui_vars == <<ui_pc, ui_buf, status_text, clears>>


\* ------------------------------------------------------- the synthesis engine
\* the ways one tts_wrapper.save_audio call can go: the first sf.write succeeds;
\* it raises and the fallback sf.write succeeds; both raise
SaveOutcomes == {"ok", "fallback", "fail"}

\* a save_audio whose fallback swallows the second exception as well
save_audio_never_raises(outcome) == FALSE

\* tts_wrapper.save_audio: TRUE when the call raises (only when the fallback
\* write raises too, the first exception being caught)
save_audio_raises(outcome) == outcome = "fail"

\* tts_wrapper.save_audio: the files the call leaves written; the fallback path
\* filepath.rsplit('.', 1)[0] + ".wav" of a .wav path is the path itself
save_audio_written(filepath, outcome) ==
    IF outcome \in {"ok", "fallback"} THEN <<filepath>> ELSE <<>>

\* the elements of a sequence
Range(s) == {s[i] : i \in 1..Len(s)}

\* a loop that takes every item the generator yields for audio
TakesEveryItem(audio) == TRUE

\* line 86: if audio_tensor is not None
IsNotNone(audio) == audio # "None"

\* the number of items of a raw sequence that carry audio
RECURSIVE CountAudio(_)
CountAudio(raw) ==
    IF raw = <<>> THEN 0
    ELSE (IF Head(raw) = "None" THEN 0 ELSE 1) + CountAudio(Tail(raw))

\* line 92: the tuple (gs, ps, audio_data_numpy, chunk_filepath); the pipeline's
\* graphemes and phonemes of an item are identified by the item's index
ChunkTuple(idx, filepath) ==
    [graphemes |-> idx, phonemes |-> idx, audio |-> idx, filepath |-> filepath]

\* a synthesize that writes the combined file whatever it collected
CombinesAlways(all_audio) == TRUE

\* line 94: if all_audio_tensors
HasAudio(all_audio) == all_audio # <<>>

\* lines 102-104: the thread after an exception raised in `cause` has left
\* synthesize
Raise(me, cause) == [me EXCEPT !.pc = "except", !.raised = cause]

\* a synthesize that raises when it has collected no audio
RaiseOnEmpty(me) == Raise(me, "empty")

\* lines 99-101: the thread after return [], None
ReturnEmpty(me) == [me EXCEPT !.pc = "record", !.results = <<<< >>, NonePath>>]

\* line 98: the thread after return synthesis_result_list, combined_filepath
ReturnFull(me, combined_filepath) ==
    [me EXCEPT !.pc = "record", !.results = <<me.result_list, combined_filepath>>]

\* models.load_voice as synthesize sees it: it returns, or it raises because the
\* voice file is still missing after the download attempt
LoadVoiceOutcomes == {"loaded", "raise"}

SetW(w, rec) == workers' = [workers EXCEPT ![w] = rec]

\* synthesize, lines 73-84: stamp the call, load the voice, create the generator
synthesize_begin(w) ==
    /\ UNCHANGED <<lib_vars, save_failed>>
    /\ workers[w].pc = "start"
    /\ \E t \in ClockReadings :
         /\ now' = t
         /\ last_synthesis_timestamp' = Strftime(t)
    /\ \E o \in LoadVoiceOutcomes :
         IF o = "raise"
         THEN SetW(w, Raise(workers[w], "load_voice"))
         ELSE SetW(w, [workers[w] EXCEPT !.pc = "generate"])
    /\ UNCHANGED <<synth_button, started, synthesis_results, persist_file, files,
                   ui_vars, ui_queue, current_filepath, widget_threads>>

\* synthesize, lines 85-93: one turn of the loop over the lazy generator
synthesize_chunk(w) ==
    /\ UNCHANGED <<lib_vars, save_failed>>
    /\ workers[w].pc = "generate"
    /\ Len(workers[w].raw) < MaxChunks
    /\ \E audio \in {"None", "pcm"}, o \in SaveOutcomes :
         LET me == workers[w]
             chunk_index == Len(me.raw)
             chunk_filepath == ChunkPath(last_synthesis_timestamp, chunk_index)
             yielded == [me EXCEPT !.raw = Append(me.raw, audio)]
             saved == save_audio_written(chunk_filepath, o)
         IN IF ~IsNotNone(audio)
            THEN /\ o = "ok"
                 /\ SetW(w, yielded)
                 /\ UNCHANGED files
            ELSE /\ files' = files \cup Range(saved)
                 /\ IF save_audio_raises(o)
                    THEN SetW(w, Raise([yielded EXCEPT !.written = me.written \o saved],
                                     "save_audio"))
                    ELSE SetW(w, [yielded EXCEPT
                           !.written = me.written \o saved,
                           !.result_list = Append(me.result_list,
                                                  ChunkTuple(chunk_index, chunk_filepath)),
                           !.all_audio = Append(me.all_audio, chunk_index)])
    /\ UNCHANGED <<synth_button, started, synthesis_results, persist_file,
                   last_synthesis_timestamp, now, ui_vars, ui_queue,
                   current_filepath, widget_threads>>

\* synthesize, lines 94-101: the generator is exhausted; write the combined file
\* when there is audio, and return
synthesize_combine(w) ==
    /\ UNCHANGED <<lib_vars, save_failed>>
    /\ workers[w].pc = "generate"
    /\ \E o \in SaveOutcomes :
         LET me == workers[w]
             combined_filepath == CombinedPath(last_synthesis_timestamp)
             saved == save_audio_written(combined_filepath, o)
         IN IF HasAudio(me.all_audio)
            THEN /\ files' = files \cup Range(saved)
                 /\ IF save_audio_raises(o)
                    THEN SetW(w, Raise([me EXCEPT !.written = me.written \o saved],
                                     "save_audio"))
                    ELSE SetW(w, ReturnFull([me EXCEPT !.written = me.written \o saved],
                                            combined_filepath))
            ELSE /\ o = "ok"
                 /\ SetW(w, ReturnEmpty(me))
                 /\ UNCHANGED files
    /\ UNCHANGED <<synth_button, started, synthesis_results, persist_file,
                   last_synthesis_timestamp, now, ui_vars, ui_queue,
                   current_filepath, widget_threads>>

\* ---------------------------------------------------------------- persistence
\* the ways open(file_path, "w") in persistence.save_generations can go; an
\* exception is caught and printed by save_generations
OpenOutcomes == {"opened", "raise"}

\* persistence.save_generations, lines 23-25: the file is opened for writing,
\* which empties it, and json.dump fills the file object's buffer
SaveOpened(generations) == [file |-> TruncatedFile, buf |-> JsonDump(generations)]

\* ---------------------------------------------------------- the orchestrator
\* lines 299-300: text = self.text_edit.toPlainText().strip(); if not text
StripIsEmpty(text) == text \in {"", " "}

\* a handler that leaves the button as it is
SubmitKeepsEnabled(enabled) == enabled

\* line 302: self.synth_button.setEnabled(False)
SubmitSetEnabled(enabled) == FALSE

\* line 318: if results, the truth value of a Python tuple
Truthy(results) == Len(results) > 0

\* a record that stores the combined path as synthesize returned it
CombinedUnchecked(combined_path, existing) == combined_path

\* line 323: combined_path if combined_path and os.path.exists(combined_path)
\* else "", `existing` being the files present
CombinedOrEmpty(combined_path, existing) ==
    IF combined_path \notin {NonePath, EmptyPath} /\ combined_path \in existing
    THEN combined_path ELSE EmptyPath

\* lines 320-330: the GenerationRecord built from what synthesize returned
GenOf(results, timestamp, existing) ==
    [timestamp |-> timestamp,
     chunks |-> [i \in 1..Len(results[1]) |->
                   [graphemes |-> results[1][i].graphemes,
                    phonemes |-> results[1][i].phonemes,
                    filepath |-> results[1][i].filepath]],
     combined |-> CombinedOrEmpty(results[2], existing)]

\* on_synthesize_clicked, lines 298-309 and 351, run by the UI thread: a click
\* reaches the handler only while the button is enabled
on_synthesize_clicked ==
    /\ UNCHANGED <<lib_vars, save_failed>>
    /\ ui_pc = "loop"
    /\ synth_button
    /\ \E text \in {"", " ", "Hello world."} :
         IF StripIsEmpty(text)
         THEN UNCHANGED <<synth_button, workers, started, ui_queue, widget_threads>>
         ELSE /\ started < MaxSubmissions
              /\ synth_button' = SubmitSetEnabled(synth_button)
              /\ ui_queue' = Append(ui_queue,
                                    Call("update_status_message", "Synthesizing...", NonePath))
              /\ started' = started + 1
              /\ SetW(started + 1, [IdleWorker EXCEPT !.pc = "start"])
              /\ widget_threads' = widget_threads \cup {"ui"}
    /\ UNCHANGED <<synthesis_results, persist_file, files, last_synthesis_timestamp,
                   now, ui_vars, current_filepath>>

\* run_synthesis, lines 318-331: build the record and append it to the ledger
run_synthesis_record(w) ==
    /\ UNCHANGED <<lib_vars, save_failed>>
    /\ workers[w].pc = "record"
    /\ LET me == workers[w] IN
         IF Truthy(me.results)
         THEN LET gen == GenOf(me.results, now, files) IN
                /\ synthesis_results' = Append(synthesis_results, gen)
                /\ SetW(w, [me EXCEPT !.pc = "save_open", !.gen = <<gen>>])
         ELSE /\ SetW(w, [me EXCEPT !.pc = "notify"])
              /\ UNCHANGED synthesis_results
    /\ UNCHANGED <<synth_button, started, persist_file, files,
                   last_synthesis_timestamp, now, ui_vars, ui_queue,
                   current_filepath, widget_threads>>

\* run_synthesis, line 332, first half of save_generations: open and dump
run_synthesis_save_open(w) ==
    /\ UNCHANGED lib_vars
    /\ workers[w].pc = "save_open"
    /\ \E o \in OpenOutcomes :
         IF o = "raise"
         THEN /\ SetW(w, [workers[w] EXCEPT !.pc = "notify"])
              /\ save_failed' = TRUE
              /\ UNCHANGED persist_file
         ELSE /\ UNCHANGED save_failed
              /\ persist_file' = SaveOpened(synthesis_results).file
              /\ SetW(w, [workers[w] EXCEPT !.pc = "save_close",
                             !.buf = SaveOpened(synthesis_results).buf])
    /\ UNCHANGED <<synth_button, started, synthesis_results, files,
                   last_synthesis_timestamp, now, ui_vars, ui_queue,
                   current_filepath, widget_threads>>

\* run_synthesis, line 332, second half of save_generations: the with block
\* closes the file, which writes the buffer
run_synthesis_save_close(w) ==
    /\ UNCHANGED <<lib_vars, save_failed>>
    /\ workers[w].pc = "save_close"
    /\ persist_file' = FlushInto(persist_file, workers[w].buf)
    /\ SetW(w, [workers[w] EXCEPT !.pc = "notify", !.buf = TruncatedFile])
    /\ UNCHANGED <<synth_button, started, synthesis_results, files,
                   last_synthesis_timestamp, now, ui_vars, ui_queue,
                   current_filepath, widget_threads>>

\* run_synthesis, lines 333-342: what the worker posts to the UI thread after a
\* synthesize that returned
NotifyCalls(results) ==
    <<Call("update_generation_time", "", NonePath)>>
    \o (IF Truthy(results) /\ results[2] # NonePath
        THEN <<Call("set_file", "", results[2])>> ELSE <<>>)
    \o <<Call("populate_results_table", "", NonePath),
         Call("update_status_message", "Synthesis complete.", NonePath)>>

run_synthesis_notify(w) ==
    /\ UNCHANGED <<lib_vars, save_failed>>
    /\ workers[w].pc = "notify"
    /\ ui_queue' = ui_queue \o NotifyCalls(workers[w].results)
    /\ current_filepath' =
         IF Truthy(workers[w].results) /\ workers[w].results[2] # NonePath
         THEN workers[w].results[2] ELSE current_filepath
    /\ SetW(w, [workers[w] EXCEPT !.pc = "finally"])
    /\ UNCHANGED <<synth_button, started, synthesis_results, persist_file, files,
                   last_synthesis_timestamp, now, ui_vars, widget_threads>>

\* an except clause that re-enables the button itself, before the dialog
ExceptCallsReenable ==
    <<Call("update_status_message", "Synthesis error.", NonePath),
      Call("setEnabled", "", NonePath)>>

\* run_synthesis, lines 343-346: the except clause posts the error status
ExceptCalls == <<Call("update_status_message", "Synthesis error.", NonePath)>>

run_synthesis_except(w) ==
    /\ UNCHANGED <<lib_vars, save_failed>>
    /\ workers[w].pc = "except"
    /\ ui_queue' = ui_queue \o ExceptCalls
    /\ SetW(w, [workers[w] EXCEPT !.pc = "show_error"])
    /\ UNCHANGED <<synth_button, started, synthesis_results, persist_file, files,
                   last_synthesis_timestamp, now, ui_vars, current_filepath,
                   widget_threads>>

\* the thread that runs error_handler.show_error when run_synthesis calls it
ShowErrorThread == "worker"

\* what msg_box.exec() of a QMessageBox built outside the GUI thread can do: the
\* dialog is shown and dismissed, or the call never returns
ExecOutcomes == {"dismissed", "never returns"}

\* run_synthesis, line 347: error_handler.show_error(self, ...), called directly
show_error(w) ==
    /\ UNCHANGED <<lib_vars, save_failed>>
    /\ workers[w].pc = "show_error"
    /\ widget_threads' = widget_threads \cup {ShowErrorThread}
    /\ \E o \in ExecOutcomes :
         SetW(w, [workers[w] EXCEPT
                    !.pc = IF o = "dismissed" THEN "finally" ELSE "blocked"])
    /\ UNCHANGED <<synth_button, started, synthesis_results, persist_file, files,
                   last_synthesis_timestamp, now, ui_vars, ui_queue,
                   current_filepath>>

\* run_synthesis, lines 348-350: the finally clause posts setEnabled(True)
FinallyCalls == <<Call("setEnabled", "", NonePath)>>

run_synthesis_finally(w) ==
    /\ UNCHANGED <<lib_vars, save_failed>>
    /\ workers[w].pc = "finally"
    /\ ui_queue' = ui_queue \o FinallyCalls
    /\ SetW(w, DoneWorker)
    /\ UNCHANGED <<synth_button, started, synthesis_results, persist_file, files,
                   last_synthesis_timestamp, now, ui_vars, current_filepath,
                   widget_threads>>


\* --------------------------------------------------------------- the UI thread
\* the slot a posted call runs, on the UI thread: update_status_message
\* (lines 256-258), update_generation_time (395-397), WaveformWidget.set_file
\* (50-54), populate_results_table (353-393), QPushButton.setEnabled(True)
ProcessPostedCall ==
    /\ UNCHANGED <<lib_vars, save_failed>>
    /\ ui_pc = "loop"
    /\ ui_queue # <<>>
    /\ LET call == Head(ui_queue) IN
         /\ ui_queue' = Tail(ui_queue)
         /\ status_text' = IF call.method = "update_status_message"
                           THEN call.msg ELSE status_text
         /\ synth_button' = IF call.method = "setEnabled" THEN TRUE ELSE synth_button
         /\ widget_threads' = widget_threads \cup {"ui"}
    /\ UNCHANGED <<workers, started, synthesis_results, persist_file, files,
                   last_synthesis_timestamp, now, ui_pc, ui_buf, current_filepath,
                   clears>>

\* a purge that drops the records whose chunk files it has removed
PurgeRecords(generations) == <<>>

\* clear_temp_files, lines 275-276: gen["chunks"] = [] for every record
PurgeChunks(generations) ==
    [i \in 1..Len(generations) |-> [generations[i] EXCEPT !.chunks = <<>>]]

\* clear_temp_files, lines 268-274: the files left once every chunk_ file is removed
RemoveChunkFiles(present) == {p \in present : ~StartsWithChunk(p)}

\* the UI thread enters save_generations: open and dump, or the caught exception
UISaveOpen(generations, next_pc) ==
    \E o \in OpenOutcomes :
        /\ ui_pc' = next_pc
        /\ IF o = "raise"
           THEN /\ ui_buf' = MissingFile
                /\ save_failed' = TRUE
                /\ UNCHANGED persist_file
           ELSE /\ UNCHANGED save_failed
                /\ ui_buf' = SaveOpened(generations).buf
                /\ persist_file' = SaveOpened(generations).file

\* the UI thread leaves save_generations: the with block closes the file
UISaveClose ==
    /\ persist_file' = IF ui_buf = MissingFile THEN persist_file
                       ELSE FlushInto(persist_file, ui_buf)
    /\ ui_buf' = MissingFile
    /\ ui_pc' = "loop"

\* clear_old_results, lines 400-402 up to the open file in save_generations
clear_old_results ==
    /\ UNCHANGED lib_vars
    /\ ui_pc = "loop"
    /\ clears < MaxClears
    /\ clears' = clears + 1
    /\ synthesis_results' = <<>>
    /\ UISaveOpen(<<>>, "clear_old_results")
    /\ widget_threads' = widget_threads \cup {"ui"}
    /\ UNCHANGED <<synth_button, workers, started, files, last_synthesis_timestamp,
                   now, ui_queue, status_text, current_filepath>>

\* clear_old_results, lines 402-405: the file is closed, the label reset, the
\* status posted
clear_old_results_end ==
    /\ UNCHANGED <<lib_vars, save_failed>>
    /\ ui_pc = "clear_old_results"
    /\ UISaveClose
    /\ ui_queue' = Append(ui_queue, Call("update_status_message",
                                         "Persistent generations cleared.", NonePath))
    /\ UNCHANGED <<synth_button, workers, started, synthesis_results, files,
                   last_synthesis_timestamp, now, status_text, current_filepath,
                   widget_threads, clears>>

\* clear_temp_files, lines 267-277 up to the open file in save_generations
clear_temp_files ==
    /\ UNCHANGED lib_vars
    /\ ui_pc = "loop"
    /\ clears < MaxClears
    /\ clears' = clears + 1
    /\ files' = RemoveChunkFiles(files)
    /\ synthesis_results' = PurgeChunks(synthesis_results)
    /\ UISaveOpen(PurgeChunks(synthesis_results), "clear_temp_files")
    /\ UNCHANGED <<synth_button, workers, started, last_synthesis_timestamp, now,
                   ui_queue, status_text, current_filepath, widget_threads>>

\* clear_temp_files, lines 277-280: the file is closed, the table rebuilt, the
\* status posted
clear_temp_files_end ==
    /\ UNCHANGED <<lib_vars, save_failed>>
    /\ ui_pc = "clear_temp_files"
    /\ UISaveClose
    /\ ui_queue' = Append(ui_queue, Call("update_status_message",
                                         "Temporary files cleared.", NonePath))
    /\ widget_threads' = widget_threads \cup {"ui"}
    /\ UNCHANGED <<synth_button, workers, started, synthesis_results, files,
                   last_synthesis_timestamp, now, status_text, current_filepath,
                   clears>>

\* ------------------------------------------------- persistence.py on its own
\* records in a list handed to save_generations
MaxRecords == 2
\* chunk entries in one such record
MaxRecordChunks == 2

\* Python values as json sees them
PyValue(type, s, n, items) == [type |-> type, s |-> s, n |-> n, items |-> items]

PyNone == PyValue("None", "", 0, <<>>)

PyStr(s) == PyValue("str", s, 0, <<>>)

\* a float, in thousandths
PyFloat(n) == PyValue("float", "", n, <<>>)

PyList(items) == PyValue("list", "", 0, items)

PyTuple(items) == PyValue("tuple", "", 0, items)

\* one key: value entry of a dict
PyItem(key, value) == PyValue("item", key, 0, <<value>>)

\* a dict with string keys, in insertion order
PyDict(items) == PyValue("dict", "", 0, items)

\* ui_main.py lines 326-330: the dict appended to gen["chunks"]
ChunkDict(graphemes, phonemes, filepath) ==
    PyDict(<<PyItem("graphemes", PyStr(graphemes)),
             PyItem("phonemes", PyStr(phonemes)),
             PyItem("filepath", PyStr(filepath))>>)

\* ui_main.py lines 320-324: the dict gen
GenDict(timestamp, chunks, combined) ==
    PyDict(<<PyItem("timestamp", PyFloat(timestamp)),
             PyItem("chunks", PyList(chunks)),
             PyItem("combined", PyStr(combined))>>)

\* the text of a JSON file, token by token (the white space of indent=2 is
\* skipped by the decoder and left out)
Token(t, s, n) == [t |-> t, s |-> s, n |-> n]

Punct(c) == Token(c, "", 0)

RECURSIVE JsonEncode(_)
RECURSIVE EncodeItems(_)
\* json.dump: the tokens written for a value; a tuple is written as an array
JsonEncode(v) ==
    CASE v.type = "str" -> <<Token("string", v.s, 0)>>
      [] v.type = "float" -> <<Token("number", "float", v.n)>>
      [] v.type = "None" -> <<Token("null", "", 0)>>
      [] v.type \in {"list", "tuple"} -> <<Punct("[")>> \o EncodeItems(v.items) \o <<Punct("]")>>
      [] v.type = "dict" -> <<Punct("{")>> \o EncodeItems(v.items) \o <<Punct("}")>>
      [] v.type = "item" -> <<Token("string", v.s, 0), Punct(":")>> \o JsonEncode(v.items[1])

\* the elements of an array or the members of an object, separated by commas
EncodeItems(items) ==
    IF items = <<>> THEN <<>>
    ELSE IF Len(items) = 1 THEN JsonEncode(items[1])
    ELSE JsonEncode(Head(items)) \o <<Punct(",")>> \o EncodeItems(Tail(items))

\* a decoding step: the value read and the tokens left, or the error raised
Decoded(value, rest) == [ok |-> TRUE, value |-> value, rest |-> rest]

JSONDecodeError == [ok |-> FALSE, value |-> PyNone, rest |-> <<>>]

RECURSIVE JsonDecode(_)
RECURSIVE DecodeElements(_, _)
RECURSIVE DecodeMembers(_, _)
\* json's decoder: one value from the front of the tokens
JsonDecode(toks) ==
    IF toks = <<>> THEN JSONDecodeError
    ELSE LET h == Head(toks)
             t == Tail(toks)
         IN CASE h.t = "string" -> Decoded(PyStr(h.s), t)
              [] h.t = "number" -> Decoded(PyFloat(h.n), t)
              [] h.t = "null" -> Decoded(PyNone, t)
              [] h.t = "[" -> IF t # <<>> /\ Head(t).t = "]"
                              THEN Decoded(PyList(<<>>), Tail(t))
                              ELSE DecodeElements(t, <<>>)
              [] h.t = "{" -> IF t # <<>> /\ Head(t).t = "}"
                              THEN Decoded(PyDict(<<>>), Tail(t))
                              ELSE DecodeMembers(t, <<>>)
              [] OTHER -> JSONDecodeError

\* the elements of an array after "[" or ",", up to "]"
DecodeElements(toks, acc) ==
    LET e == JsonDecode(toks) IN
      IF ~e.ok \/ e.rest = <<>> THEN JSONDecodeError
      ELSE LET sep == Head(e.rest).t
               got == Append(acc, e.value)
           IN IF sep = "]" THEN Decoded(PyList(got), Tail(e.rest))
              ELSE IF sep = "," THEN DecodeElements(Tail(e.rest), got)
              ELSE JSONDecodeError

\* the members of an object after "{" or ",", up to "}"
DecodeMembers(toks, acc) ==
    IF Len(toks) < 2 \/ Head(toks).t # "string" \/ toks[2].t # ":" THEN JSONDecodeError
    ELSE LET e == JsonDecode(Tail(Tail(toks))) IN
           IF ~e.ok \/ e.rest = <<>> THEN JSONDecodeError
           ELSE LET sep == Head(e.rest).t
                    got == Append(acc, PyItem(Head(toks).s, e.value))
                IN IF sep = "}" THEN Decoded(PyDict(got), Tail(e.rest))
                   ELSE IF sep = "," THEN DecodeMembers(Tail(e.rest), got)
                   ELSE JSONDecodeError

\* json.load(f): the whole text is one value, anything after it is an error
json_load(text) ==
    LET d == JsonDecode(text) IN
      IF d.ok /\ d.rest = <<>> THEN d ELSE JSONDecodeError

\* the file at file_path: absent; a regular file with its text; or something
\* open() raises on (a directory, a file the user may not read or write)
NoFile == [state |-> "missing", text |-> <<>>]

RegularFile(text) == [state |-> "file", text |-> text]

Unopenable == [state |-> "unopenable", text |-> <<>>]

\* a save_generations that opens the file for appending
OpenForAppend(text) == text

\* persistence.py line 24: open(file_path, "w") empties the file
OpenForWrite(text) == <<>>

\* persistence.save_generations: the file afterwards; an exception raised by
\* open is caught and printed, and the file is left as it was
persistence_save_generations(file, gens, o) ==
    IF file.state = "unopenable" \/ o = "raise" THEN file
    ELSE RegularFile(OpenForWrite(file.text) \o JsonEncode(gens))

\* a handler that catches a missing file only
ExceptOSError(exc) == exc = "OSError"

\* persistence.py line 13: except Exception
ExceptException(exc) == TRUE

\* what a load_generations call gives its caller
Returns(value) == [value |-> value, raised |-> ""]

Propagates(exc) == [value |-> PyNone, raised |-> exc]

\* persistence.py lines 10-15: the exception raised inside the try
LoadHandler(exc) ==
    IF ExceptException(exc) THEN Returns(PyList(<<>>)) ELSE Propagates(exc)

\* persistence.load_generations
persistence_load_generations(file) ==
    IF file.state # "missing"
    THEN IF file.state = "unopenable" THEN LoadHandler("OSError")
         ELSE LET d == json_load(file.text) IN
                IF d.ok THEN Returns(d.value) ELSE LoadHandler("JSONDecodeError")
    ELSE Returns(PyList(<<>>))

\* the sequences over S of length at most n
SeqsUpTo(S, n) == UNION {[1..k -> S] : k \in 0..n}

\* the well-formed lists of generation records, within the bounds
WellFormedChunks ==
    {ChunkDict(g, g, f) : g \in {"Hello."}, f \in {"chunk_1_0.wav", "chunk_2_0.wav"}}

\* a synthesis without audio has no combined path, one with audio has one
WellFormedRecords ==
    {GenDict(tc[1], cs, tc[2]) : tc \in {<<1500, "">>, <<2250, "combined_1.wav">>},
                                 cs \in SeqsUpTo(WellFormedChunks, MaxRecordChunks)}

WellFormedLists == {PyList(rs) : rs \in SeqsUpTo(WellFormedRecords, MaxRecords)}

\* a ledger of an earlier session, as save_generations wrote it
EarlierLedger == JsonEncode(PyList(<<GenDict(750, <<ChunkDict("Hi.", "hI", "chunk_0_0.wav")>>, "")>>))

\* a ledger file cut short, or with the tail of a longer one after it
CorruptTexts ==
    {SubSeq(EarlierLedger, 1, k) : k \in 0..(Len(EarlierLedger) - 1)}
    \cup {JsonEncode(PyList(<<>>)) \o SubSeq(EarlierLedger, 3, Len(EarlierLedger))}

\* texts that are JSON but no list of records
OtherJsonTexts == {JsonEncode(PyNone), JsonEncode(PyDict(<<>>))}

\* what can be at file_path before a save_generations call
FilesBeforeSave ==
    {NoFile, Unopenable, RegularFile(EarlierLedger),
     RegularFile(SubSeq(EarlierLedger, 1, 5))}

\* what can be at file_path before a load_generations call
FilesBefore ==
    FilesBeforeSave \cup {RegularFile(t) : t \in CorruptTexts \cup OtherJsonTexts}

NotLoaded == Propagates("")

\* save_generations(file_path, generations) is called and returns
persistence_save ==
    /\ persistence_pc = "before"
    /\ \E o \in OpenOutcomes :
         /\ file_path' = persistence_save_generations(file_path, generations_arg, o)
         /\ persistence_pc' = IF file_path.state = "unopenable" \/ o = "raise"
                              THEN "not saved" ELSE "saved"
    /\ UNCHANGED <<generations_arg, loaded>>
    /\ UNCHANGED <<main_vars, cleanup_vars, models_vars>>

\* load_generations(file_path) is called and returns or raises
persistence_load ==
    /\ persistence_pc \in {"before", "saved", "not saved"}
    /\ loaded' = persistence_load_generations(file_path)
    /\ persistence_pc' = CASE persistence_pc = "before" -> "loaded"
                           [] persistence_pc = "saved" -> "saved and loaded"
                           [] persistence_pc = "not saved" -> "not saved and loaded"
    /\ UNCHANGED <<generations_arg, file_path>>
    /\ UNCHANGED <<main_vars, cleanup_vars, models_vars>>

\* persistence.py is not being exercised on its own
PersistenceAtRest ==
    /\ generations_arg = PyList(<<>>)
    /\ file_path = NoFile
    /\ loaded = NotLoaded
    /\ persistence_pc = "at rest"

\* ------------------------------------------------ temp_cleanup.py on its own
\* entries in the directory cleanup_temp_files scans
MaxEntries == 2

\* ui_main.py lines 251 and 262: retention_days=7
retention_days == 7

\* temp_cleanup.py line 10
retention_seconds == retention_days * 86400

\* file names, character by character
ChunkPrefix == <<"c", "h", "u", "n", "k", "_">>

\* str.startswith
startswith(name, prefix) ==
    Len(name) >= Len(prefix) /\ SubSeq(name, 1, Len(prefix)) = prefix

\* the names an entry of the directory can have: two chunk files, a combined
\* file, a name that holds chunk_ without starting with it, and chunk without
\* the underscore
EntryNames ==
    {ChunkPrefix \o <<"1">>, ChunkPrefix \o <<"2">>,
     <<"c", "o", "m", "b", "i", "n", "e", "d", "_", "1">>,
     <<"x">> \o ChunkPrefix, <<"c", "h", "u", "n", "k">>}

\* the last-modified times an entry can have when the call reads the clock at
\* `t`: just older than the retention time, exactly as old, a second old
Mtimes(t) == {t - retention_seconds - 1, t - retention_seconds, t - 1}

\* a directory entry: a regular file or a directory, its mtime, whether
\* os.remove raises on it, and what the call has done with it so far
Entries(t) ==
    [name : EntryNames, isfile : BOOLEAN, mtime : Mtimes(t), remove_raises : BOOLEAN,
     present : {TRUE}, examined : {FALSE}, remove_called : {FALSE}]

\* the directories the call can find: os.listdir's list, without repeated names
Listings(t) ==
    {l \in SeqsUpTo(Entries(t), MaxEntries) :
        \A i, j \in 1..Len(l) : i # j => l[i].name # l[j].name}

NoDirectory == [exists |-> FALSE, entries |-> <<>>]

Directory(entries) == [exists |-> TRUE, entries |-> entries]

\* an os.remove outside any try block
RemoveUnguarded(raises) == raises

\* temp_cleanup.py lines 18-21: TRUE when the exception of os.remove leaves
\* cleanup_temp_files; it is caught and printed
RemovePropagates(raises) == FALSE

\* a test that takes a file as old when its age has reached the retention time
AgeReaches(file_age) == file_age >= retention_seconds

\* temp_cleanup.py line 17: if file_age > retention_seconds
AgeExceeds(file_age) == file_age > retention_seconds

\* temp_cleanup.py lines 14-21: one turn of the loop on entry e, the clock
\* having been read as t
ExamineEntry(e, t) ==
    IF e.isfile /\ startswith(e.name, ChunkPrefix) /\ AgeExceeds(t - e.mtime)
    THEN [e EXCEPT !.examined = TRUE, !.remove_called = TRUE,
                   !.present = e.remove_raises]
    ELSE [e EXCEPT !.examined = TRUE]

\* temp_cleanup.py lines 9-13: read the clock, return when the directory is
\* missing, list it
cleanup_temp_files_begin ==
    /\ cleanup_pc = "called"
    /\ IF temp_dir.exists
       THEN cleanup_pc' = "scanning" /\ scan_index' = 1
       ELSE cleanup_pc' = "returned" /\ UNCHANGED scan_index
    /\ UNCHANGED temp_dir
    /\ UNCHANGED <<main_vars, persistence_vars, models_vars>>

\* temp_cleanup.py lines 13-21: the next entry of the list
cleanup_temp_files_entry ==
    /\ cleanup_pc = "scanning"
    /\ scan_index <= Len(temp_dir.entries)
    /\ LET e == ExamineEntry(temp_dir.entries[scan_index], now) IN
         /\ temp_dir' = [temp_dir EXCEPT !.entries[scan_index] = e]
         /\ IF e.remove_called /\ RemovePropagates(e.remove_raises)
            THEN cleanup_pc' = "raised" /\ UNCHANGED scan_index
            ELSE cleanup_pc' = "scanning" /\ scan_index' = scan_index + 1
    /\ UNCHANGED <<main_vars, persistence_vars, models_vars>>

\* the list is exhausted: cleanup_temp_files returns
cleanup_temp_files_return ==
    /\ cleanup_pc = "scanning"
    /\ scan_index > Len(temp_dir.entries)
    /\ cleanup_pc' = "returned"
    /\ UNCHANGED <<temp_dir, scan_index>>
    /\ UNCHANGED <<main_vars, persistence_vars, models_vars>>

\* temp_cleanup.py is not being exercised on its own
CleanupAtRest ==
    /\ temp_dir = NoDirectory
    /\ scan_index = 0
    /\ cleanup_pc = "at rest"

\* ---------------------------------------------------------------- models.py
\* load_voice calls made by synthesize in one session
MaxLoadCalls == 2

\* build_model's model_path and config_path
ModelFile == "kokoro-v1_0.pth"

ConfigFile == "config.json"

\* models.py lines 18-41, two of the voices listed, in list order
VOICE_FILES == <<"voices/af_bella.pt", "voices/af_sarah.pt">>

\* the voice names load_voice can be asked for: the listed ones and one that
\* is in no list
VoicePaths == Range(VOICE_FILES) \cup {"voices/my_voice.pt"}

Artifacts == {ModelFile, ConfigFile} \cup VoicePaths

\* the files hf_hub_download is ever asked for
Fetchable == {ModelFile, ConfigFile} \cup Range(VOICE_FILES)

\* a check that looks for the file in another directory and never finds it
NeverExists(present, path) == FALSE

\* os.path.exists(path), `present` being the files in the working directory
os_path_exists(present, path) == path \in present

\* the file system and the fetch history while a call runs, with the value the
\* last statement returned
Disk(present, fetched, path) == [local |-> present, fetches |-> fetched, path |-> path]

\* models.download_file, lines 136-152: `ok` tells whether hf_hub_download
\* succeeds; the history records whether the file was there when it was called
download_file(d, filename, ok) ==
    IF ~os_path_exists(d.local, filename)
    THEN Disk(IF ok THEN d.local \cup {filename} ELSE d.local,
              Append(d.fetches, [artifact |-> filename, present |-> filename \in d.local]),
              IF ok THEN filename ELSE "")
    ELSE Disk(d.local, d.fetches, filename)

\* models.py line 164: if force_download or not voice_path.exists()
NeedsDownload(force_download, exists) == force_download \/ ~exists

RECURSIVE download_voice_files(_, _, _, _)
\* models.download_voice_files, lines 156-170, over the rest of VOICE_FILES
download_voice_files(d, voice_files, force_download, net) ==
    IF voice_files = <<>> THEN d
    ELSE LET voice_file == Head(voice_files)
             next == IF NeedsDownload(force_download, os_path_exists(d.local, voice_file))
                     THEN download_file(d, voice_file, net[voice_file])
                     ELSE d
         IN download_voice_files(next, Tail(voice_files), force_download, net)

\* how a build_model or load_voice call ends: the file system, the cached
\* pipeline and the message of the exception raised ("" when it returns)
CallEnd(d, cached, raised) ==
    [local |-> d.local, fetches |-> d.fetches, pipeline |-> cached, raised |-> raised]

\* models.build_model, lines 172-212: `net` tells for each file whether its
\* fetch succeeds, kpipeline_ok whether KPipeline(lang_code='a') returns
build_model(d, cached, model_path, net, kpipeline_ok) ==
    IF cached # "None" THEN CallEnd(d, cached, "")
    ELSE LET m == IF ~os_path_exists(d.local, model_path)
                  THEN download_file(d, ModelFile, net[ModelFile])
                  ELSE Disk(d.local, d.fetches, model_path)
         IN IF m.path = "" THEN CallEnd(m, cached, "Failed to download model file.")
            ELSE LET c == IF ~os_path_exists(m.local, ConfigFile)
                          THEN download_file(m, ConfigFile, net[ConfigFile])
                          ELSE Disk(m.local, m.fetches, ConfigFile)
                 IN IF c.path = "" THEN CallEnd(c, cached, "Failed to download config file.")
                    ELSE IF kpipeline_ok THEN CallEnd(c, "KPipeline", "")
                    ELSE CallEnd(c, cached, "KPipeline")

\* models.load_voice, lines 221-235
load_voice(d, cached, voice_path, net, kpipeline_ok) ==
    LET b == build_model(d, cached, ModelFile, net, kpipeline_ok) IN
      IF b.raised # "" THEN b
      ELSE LET v == IF ~os_path_exists(b.local, voice_path)
                    THEN download_voice_files(Disk(b.local, b.fetches, ""),
                                              VOICE_FILES, FALSE, net)
                    ELSE Disk(b.local, b.fetches, "")
           IN IF ~os_path_exists(v.local, voice_path)
              THEN CallEnd(v, b.pipeline, "Voice file not found, even after download attempt.")
              ELSE CallEnd(v, b.pipeline, "")

\* a call, what it asked for, and how it ended
CallRecord(fn, asked, were_present, end) ==
    [fn |-> fn, asked |-> asked, were_present |-> were_present, raised |-> end.raised]

NoCall == [fn |-> "", asked |-> {}, were_present |-> FALSE, raised |-> ""]

\* the network as a call finds it
Networks == [Fetchable -> BOOLEAN]

EndCall(end) ==
    /\ local_files' = end.local
    /\ fetches' = end.fetches
    /\ pipeline' = end.pipeline

\* ui_main.py lines 234-238, tts_wrapper.py lines 42-46 and main.py line 29:
\* the exception of build_model is logged and raised again by
\* KokoroTTSWrapper.__init__, and nothing between it and main() catches it
SetupUncaught(raised) == IF raised # "" THEN "crashed" ELSE "window setup"

\* MyTTSMainWindow.__init__ builds its KokoroTTSWrapper, which calls build_model
wrapper_init ==
    /\ process = "starting"
    /\ \E net \in Networks, kpipeline_ok \in BOOLEAN :
         LET end == build_model(Disk(local_files, fetches, ""), pipeline, ModelFile,
                                net, kpipeline_ok)
         IN /\ EndCall(end)
            /\ last_call' = CallRecord("build_model", {ModelFile, ConfigFile},
                                       {ModelFile, ConfigFile} \subseteq local_files, end)
            /\ process' = SetupUncaught(end.raised)
    /\ UNCHANGED load_calls
    /\ UNCHANGED <<main_vars, persistence_vars, cleanup_vars>>

\* tts_wrapper.load_default_voice, lines 59-65, called by ui_main.py line 239:
\* the exception of load_voice is logged and dropped
load_default_voice ==
    /\ process = "window setup"
    /\ \E net \in Networks :
         LET voice_path == "voices/af_bella.pt"
             end == load_voice(Disk(local_files, fetches, ""), pipeline, voice_path,
                               net, TRUE)
         IN /\ EndCall(end)
            /\ last_call' = CallRecord("load_voice", {voice_path},
                                       voice_path \in local_files, end)
    /\ process' = "running"
    /\ UNCHANGED load_calls
    /\ UNCHANGED <<main_vars, persistence_vars, cleanup_vars>>

\* tts_wrapper.synthesize, line 76: load_voice(selected_voice, self.device); its
\* exception ends the synthesis in run_synthesis's except clause
synthesize_load_voice ==
    /\ process = "running"
    /\ load_calls < MaxLoadCalls
    /\ load_calls' = load_calls + 1
    /\ \E net \in Networks, voice_path \in VoicePaths :
         LET end == load_voice(Disk(local_files, fetches, ""), pipeline, voice_path,
                               net, TRUE)
         IN /\ EndCall(end)
            /\ last_call' = CallRecord("load_voice", {voice_path},
                                       voice_path \in local_files, end)
    /\ UNCHANGED process
    /\ UNCHANGED <<main_vars, persistence_vars, cleanup_vars>>

\* models.py is not being exercised
ModelsAtRest ==
    /\ local_files = Artifacts
    /\ pipeline = "KPipeline"
    /\ fetches = <<>>
    /\ process = "at rest"
    /\ last_call = NoCall
    /\ load_calls = 0

\* ------------------------------------------------------------ specification
\* the ledger files MyTTSMainWindow.__init__ can find at PERSIST_FILE
InitialFiles == {MissingFile, JsonDump(<<OldGeneration>>)}

\* MyTTSMainWindow.__init__, lines 114-254: the window once constructed, having
\* found the ledger file `found`
WindowInit(found) ==
    /\ persist_file = found
    /\ synthesis_results = load_generations(persist_file)
    /\ files = IF persist_file = MissingFile THEN {}
               ELSE {ChunkPath(0, 0), CombinedPath(0)}
    /\ synth_button = TRUE
    /\ workers = [w \in WorkerIds |-> IdleWorker]
    /\ started = 0
    /\ last_synthesis_timestamp = 0
    /\ now = 1
    /\ ui_pc = "loop"
    /\ ui_buf = MissingFile
    /\ ui_queue = <<>>
    /\ status_text = "Ready"
    /\ current_filepath = NonePath
    /\ widget_threads = {"ui"}
    /\ clears = 0
    /\ save_failed = FALSE

\* the window with no session going on, while a module is exercised on its own
WindowAtRest == WindowInit(MissingFile)

Init ==
    /\ \E found \in InitialFiles : WindowInit(found)
    /\ PersistenceAtRest
    /\ CleanupAtRest
    /\ ModelsAtRest

\* the steps of the run_synthesis thread of submission w
WorkerThread(w) ==
    \/ synthesize_begin(w)
    \/ synthesize_chunk(w)
    \/ synthesize_combine(w)
    \/ run_synthesis_record(w)
    \/ run_synthesis_save_open(w)
    \/ run_synthesis_save_close(w)
    \/ run_synthesis_notify(w)
    \/ run_synthesis_except(w)
    \/ show_error(w)
    \/ run_synthesis_finally(w)

\* the steps the UI thread takes without a new click: finishing the handler it
\* is in, and running the next posted call
UIThread ==
    \/ ProcessPostedCall
    \/ clear_old_results_end
    \/ clear_temp_files_end

Next ==
    \/ on_synthesize_clicked
    \/ clear_old_results
    \/ clear_temp_files
    \/ ProcessPostedCall
    \/ clear_old_results_end
    \/ clear_temp_files_end
    \/ \E w \in WorkerIds : synthesize_begin(w)
    \/ \E w \in WorkerIds : synthesize_chunk(w)
    \/ \E w \in WorkerIds : synthesize_combine(w)
    \/ \E w \in WorkerIds : run_synthesis_record(w)
    \/ \E w \in WorkerIds : run_synthesis_save_open(w)
    \/ \E w \in WorkerIds : run_synthesis_save_close(w)
    \/ \E w \in WorkerIds : run_synthesis_notify(w)
    \/ \E w \in WorkerIds : run_synthesis_except(w)
    \/ \E w \in WorkerIds : show_error(w)
    \/ \E w \in WorkerIds : run_synthesis_finally(w)

Spec == Init /\ [][Next]_vars

\* the worker threads and the UI event loop keep being scheduled
FairSpec ==
    /\ Spec
    /\ WF_vars(UIThread)
    /\ \A w \in WorkerIds : WF_vars(WorkerThread(w))


\* persistence.py on its own: a list and a file, then save_generations and
\* load_generations in the orders a caller can make the two calls
PersistenceInit ==
    /\ \/ generations_arg \in WellFormedLists /\ file_path \in FilesBeforeSave
       \/ generations_arg = PyList(<<>>) /\ file_path \in FilesBefore
    /\ loaded = NotLoaded
    /\ persistence_pc = "before"
    /\ WindowAtRest
    /\ CleanupAtRest
    /\ ModelsAtRest

PersistenceNext ==
    \/ persistence_save
    \/ persistence_load

PersistenceSpec == PersistenceInit /\ [][PersistenceNext]_vars

\* temp_cleanup.py on its own: a directory, then one cleanup_temp_files call
CleanupInit ==
    /\ WindowAtRest
    /\ PersistenceAtRest
    /\ ModelsAtRest
    /\ temp_dir \in {NoDirectory} \cup {Directory(l) : l \in Listings(now)}
    /\ scan_index = 0
    /\ cleanup_pc = "called"

CleanupNext ==
    \/ cleanup_temp_files_begin
    \/ cleanup_temp_files_entry
    \/ cleanup_temp_files_return

CleanupSpec == CleanupInit /\ [][CleanupNext]_vars

\* the call runs to its end on the thread that made it
CleanupFairSpec == CleanupSpec /\ WF_vars(CleanupNext)

\* models.py from the start of the process: any set of artifacts already in
\* the working directory, the window's setup, then the load_voice calls of the
\* syntheses
ModelsInit ==
    /\ WindowAtRest
    /\ PersistenceAtRest
    /\ CleanupAtRest
    /\ local_files \in SUBSET Artifacts
    /\ pipeline = "None"
    /\ fetches = <<>>
    /\ process = "starting"
    /\ last_call = NoCall
    /\ load_calls = 0

ModelsNext ==
    \/ wrapper_init
    \/ load_default_voice
    \/ synthesize_load_voice

ModelsSpec == ModelsInit /\ [][ModelsNext]_vars

\* ------------------------------------------------------------------- claims
\* the threads whose synthesize call has left its loop: it returned or raised
\* after the generator was created
Synthesized(w) ==
    /\ workers[w].pc \notin {"unstarted", "start", "generate", "done"}
    /\ workers[w].raised # "load_voice"

\* the threads whose synthesize call has returned
Returned(w) == workers[w].results # NoResults

\* the file paths of a chunk list, in list order
Filepaths(chunk_list) == [i \in 1..Len(chunk_list) |-> chunk_list[i].filepath]

\* C1: while a synthesis started by on_synthesize_clicked is Running (from the
\* submission until its run_synthesis thread has finished), the Synthesize
\* button is disabled.
C1_DisabledWhileRunning == \A w \in WorkerIds : Running(w) => ~synth_button

\* a failed synthesis, its dialog dismissed, about to re-enable the button
C1_Witness ==
    \E w \in WorkerIds :
        /\ workers[w].pc = "finally"
        /\ workers[w].raised # ""
        /\ ~synth_button

\* C2: every submission that disables the submit control is eventually followed
\* by the control being re-enabled, when synthesize returns and when it raises,
\* the worker thread and the UI event loop being scheduled.
C2_EventuallyReenabled == (~synth_button) ~> synth_button

\* C3: at most one synthesis is Running at any time: a run_synthesis thread is
\* started only when every earlier one has finished.
C3_AtMostOneRunning ==
    \A v, w \in WorkerIds :
        (v < w /\ workers[w].pc # "unstarted") => workers[v].pc = "done"

\* a second submission running after the first has finished
C3_Witness == workers[1].pc = "done" /\ Running(2) /\ started = 2

\* C4: when the orchestrator is back in Idle, either exactly one full
\* GenerationRecord (one entry per chunk the engine returned, in engine order,
\* plus the combined path) has been appended to the ledger and persisted, or the
\* ledger in memory and on disk is as it was before the submission; a synthesis
\* that raises appends nothing.  Stated for the first submission of a session in
\* which no clear button is clicked: the ledger before it is the one found at
\* startup, and only the submission changes it.
C4_RecordAppendedOrNothing ==
    (workers[1].pc = "finally" /\ clears = 0) =>
        \E before \in InitialFiles :
            \/ /\ workers[1].raised = ""
               /\ Len(workers[1].gen) = 1
               /\ Filepaths(workers[1].gen[1].chunks) = Filepaths(workers[1].results[1])
               /\ workers[1].gen[1].combined =
                    IF workers[1].results[2] = NonePath THEN EmptyPath
                    ELSE workers[1].results[2]
               /\ synthesis_results = Append(load_generations(before), workers[1].gen[1])
               /\ load_generations(persist_file) = synthesis_results
            \/ /\ workers[1].gen = <<>>
               /\ synthesis_results = load_generations(before)
               /\ persist_file = before

\* C5: the synthesis worker never mutates UI-visible state directly: the status
\* text, the table, the generation-time label, the waveform and any error
\* dialog are changed on the UI thread only, through queued calls.
C5_WidgetsOnUIThreadOnly == widget_threads \subseteq {"ui"}

\* C6: for a raw sequence with at least one item carrying audio, synthesize
\* returns a chunk list as long as the number of such items, and a combined path
\* that names a file the call has written and that exists.
C6_OneChunkPerAudioItem ==
    \A w \in WorkerIds :
        (Returned(w) /\ CountAudio(workers[w].raw) >= 1) =>
            /\ Len(workers[w].results[1]) = CountAudio(workers[w].raw)
            /\ workers[w].results[2] = CombinedPath(last_synthesis_timestamp)
            /\ workers[w].results[2] \in Range(workers[w].written)
            /\ workers[w].results[2] \in files

\* synthesize has returned one chunk for a sequence of an empty and an audio item
C6_Witness ==
    \E w \in WorkerIds :
        /\ workers[w].pc = "record"
        /\ workers[w].raw = <<"None", "pcm">>
        /\ Len(workers[w].results[1]) = 1

\* C7: when the raw sequence yields no item carrying audio, synthesize returns
\* an empty chunk list and no combined path, writes no combined file and does
\* not raise.
C7_EmptyResultForNoAudio ==
    \A w \in WorkerIds :
        (Synthesized(w) /\ CountAudio(workers[w].raw) = 0) =>
            /\ workers[w].results = <<<< >>, NonePath>>
            /\ workers[w].raised = ""
            /\ workers[w].written = <<>>

\* synthesize has returned for a sequence of two empty items
C7_Witness ==
    \E w \in WorkerIds :
        /\ workers[w].pc = "record"
        /\ workers[w].raw = <<"None", "None">>
        /\ workers[w].results[1] = <<>>

\* the orchestrator is Idle: no thread runs and the button is enabled
Idle == synth_button /\ \A w \in WorkerIds : ~Running(w)

\* C8: a synthesis that yields no chunk is reported to its caller by a return
\* value no completed synthesis has (an empty list, no combined path), it takes
\* the worker through no exception path, and the orchestrator returns to Idle.
C8_EmptySynthesisReportedNotFatal ==
    /\ [](\A w \in WorkerIds :
            /\ Returned(w) =>
                 /\ (workers[w].results[1] = <<>>) <=> (CountAudio(workers[w].raw) = 0)
                 /\ (workers[w].results[2] = NonePath) <=> (CountAudio(workers[w].raw) = 0)
            /\ (Synthesized(w) /\ CountAudio(workers[w].raw) = 0) =>
                 workers[w].pc \in {"record", "save_open", "save_close", "notify", "finally"})
    /\ (\E w \in WorkerIds : Synthesized(w) /\ CountAudio(workers[w].raw) = 0) ~> Idle

\* an empty synthesis has been recorded and the worker is about to notify the UI
C8_Witness ==
    \E w \in WorkerIds :
        /\ workers[w].pc = "notify"
        /\ workers[w].raw = <<"None">>
        /\ workers[w].results[2] = NonePath

\* the chunk paths of the items of a raw sequence that carry audio, by index
ExpectedChunkPaths(raw, ts) ==
    LET idx == {i \in 1..Len(raw) : raw[i] # "None"}
        Nth[n \in 0..Len(raw)] ==
            IF n = 0 THEN 0 ELSE CHOOSE i \in idx : i > Nth[n - 1] /\ \A j \in idx : j > Nth[n - 1] => i <= j
    IN [n \in 1..Cardinality(idx) |-> ChunkPath(ts, Nth[n] - 1)]

\* C9: within one synthesize call the chunk files are written in the order the
\* raw sequence yields them and recorded in that order; the combined file is
\* written only after every chunk file of the call has been written, so a call
\* in which a chunk write fails writes no combined file.
C9_ChunksInOrderThenCombined ==
    \A w \in WorkerIds :
        LET me == workers[w]
            ts == last_synthesis_timestamp
        IN /\ (me.pc = "generate" \/ me.raised # "") =>
                 /\ me.written = Filepaths(me.result_list)
                 /\ CombinedPath(ts) \notin Range(me.written)
           /\ Returned(w) =>
                 /\ Filepaths(me.results[1]) = ExpectedChunkPaths(me.raw, ts)
                 /\ me.written = IF me.results[2] = NonePath
                                 THEN Filepaths(me.results[1])
                                 ELSE Append(Filepaths(me.results[1]), me.results[2])
           /\ (me.pc = "generate" \/ me.raised = "save_audio") =>
                 \E n \in 0..Len(me.raw) :
                     me.written = SubSeq(ExpectedChunkPaths(me.raw, ts), 1, n)

\* two chunk files and then the combined file have been written
C9_Witness ==
    \E w \in WorkerIds :
        /\ workers[w].pc = "record"
        /\ Len(workers[w].written) = 3
        /\ workers[w].written[3] = workers[w].results[2]

\* a chunk write has failed after an earlier chunk was written
C9_WitnessFailedChunk ==
    \E w \in WorkerIds :
        /\ workers[w].raised = "save_audio"
        /\ Len(workers[w].written) = 1
        /\ Len(workers[w].raw) = 2

\* a save_generations call returns in this step
SaveReturns ==
    \/ \E w \in WorkerIds :
         /\ workers[w].pc \in {"save_open", "save_close"}
         /\ workers'[w].pc = "notify"
    \/ ui_pc # "loop" /\ ui_pc' = "loop"

\* C10: after each ledger mutation completes (append after a synthesis,
\* clear_old_results, clear_temp_files), the persisted ledger file holds exactly
\* the current in-memory sequence of records.
C10_FileHoldsLedgerAfterMutation ==
    [][SaveReturns => load_generations(persist_file') = synthesis_results']_vars

\* the chunk entries of a generation record
ChunksOf(gen) == gen.items[2].items[1].items

\* C11: for every well-formed list of generation records, load_generations
\* applied to the file save_generations has written returns a list equal to the
\* one saved: the same records in the same order.
C11_LedgerRoundTrip ==
    persistence_pc = "saved and loaded" => loaded = Returns(generations_arg)

\* two records, the first with a chunk entry, saved and loaded back
C11_Witness ==
    /\ persistence_pc = "saved and loaded"
    /\ Len(generations_arg.items) = 2
    /\ ChunksOf(generations_arg.items[1]) # <<>>
    /\ generations_arg.items[1] # generations_arg.items[2]

\* C12: load_generations returns an empty list, and raises nothing, whenever
\* there is no file at the path, the file cannot be opened, or its text is a
\* ledger cut short or overwritten in part.
C12_EmptyOnMissingOrCorrupt ==
    (/\ persistence_pc \in {"loaded", "not saved and loaded"}
     /\ \/ file_path.state \in {"missing", "unopenable"}
        \/ file_path.text \in CorruptTexts)
    => loaded = Returns(PyList(<<>>))

\* a ledger cut after its fifth token has been loaded
C12_Witness ==
    /\ persistence_pc = "loaded"
    /\ file_path = RegularFile(SubSeq(EarlierLedger, 1, 5))
    /\ loaded.value = PyList(<<>>)

\* the step in which clear_temp_files purges the ledger
ClearTempFilesStep == ui_pc = "loop" /\ ui_pc' = "clear_temp_files"

\* C13: clear_temp_files sets the chunk list of every record to empty and
\* removes no record: the number of records, their order, and each record's
\* timestamp and combined path are unchanged.
C13_PurgeKeepsRecords ==
    [][ClearTempFilesStep =>
         /\ Len(synthesis_results') = Len(synthesis_results)
         /\ \A i \in 1..Len(synthesis_results) :
              /\ synthesis_results'[i].chunks = <<>>
              /\ synthesis_results'[i].timestamp = synthesis_results[i].timestamp
              /\ synthesis_results'[i].combined = synthesis_results[i].combined]_vars

\* the purge has run on a ledger of two records, the second one of a
\* synthesis that produced audio
C13_Witness ==
    /\ ui_pc = "clear_temp_files"
    /\ Len(synthesis_results) = 2
    /\ synthesis_results[2].combined # EmptyPath
    /\ synthesis_results[2].chunks = <<>>

\* a regular file named chunk_... whose age at the call exceeds seven days
OldChunkFile(e) ==
    /\ e.isfile
    /\ e.name \in {ChunkPrefix \o <<"1">>, ChunkPrefix \o <<"2">>}
    /\ now - e.mtime > 7 * 86400

\* the entries of the scanned directory
ScannedEntries == Range(temp_dir.entries)

\* C14, as stated: when cleanup_temp_files has returned, an entry of the
\* directory has been removed if and only if it is a regular file whose name
\* starts with chunk_ and whose age exceeds the retention threshold.
C14_RemovedIffOldChunkFile ==
    cleanup_pc = "returned" =>
        \A e \in ScannedEntries : (~e.present) <=> OldChunkFile(e)

\* C14, amended: os.remove is called on an entry if and only if it is a regular
\* file whose name starts with chunk_ and whose age exceeds the retention
\* threshold, and the entry is gone if and only if, in addition, that os.remove
\* did not raise; a newer chunk_ file and a file without the prefix are kept.
C14_RemoveCalledIffOldChunkFile ==
    cleanup_pc = "returned" =>
        \A e \in ScannedEntries :
            /\ e.remove_called <=> OldChunkFile(e)
            /\ (~e.present) <=> (OldChunkFile(e) /\ ~e.remove_raises)

\* an old chunk_ file has been removed and an equally old file whose name only
\* contains chunk_ has been kept
C14_Witness ==
    /\ cleanup_pc = "returned"
    /\ \E e, f \in ScannedEntries :
         /\ OldChunkFile(e) /\ ~e.present
         /\ f.name = <<"x">> \o ChunkPrefix /\ f.isfile /\ f.present
         /\ f.mtime = e.mtime

\* some old chunk_ file of the directory cannot be deleted
DeletionFails == \E e \in ScannedEntries : OldChunkFile(e) /\ e.remove_raises

\* C15: if deleting one eligible file fails, cleanup_temp_files does not raise,
\* it returns, and when it has returned it has examined every entry of the
\* directory and deleted every other eligible file.
C15_FailedDeletionDoesNotAbortScan ==
    /\ [](DeletionFails =>
            /\ cleanup_pc # "raised"
            /\ cleanup_pc = "returned" =>
                 \A e \in ScannedEntries :
                     /\ e.examined
                     /\ (OldChunkFile(e) /\ ~e.remove_raises) => ~e.present)
    /\ DeletionFails ~> (cleanup_pc = "returned")

\* the first entry could not be deleted, the second one has been
C15_Witness ==
    /\ cleanup_pc = "returned"
    /\ Len(temp_dir.entries) = 2
    /\ OldChunkFile(temp_dir.entries[1]) /\ temp_dir.entries[1].remove_raises
    /\ temp_dir.entries[1].present
    /\ OldChunkFile(temp_dir.entries[2]) /\ ~temp_dir.entries[2].present

\* C16: build_model and load_voice never start a fetch for a file (model
\* weights, model config, a voice file) that is present locally, and a call
\* that finds everything it asks for present performs no fetch at all,
\* repeated calls included.
C16_NoFetchWhenPresent ==
    /\ [](\A i \in 1..Len(fetches) : ~fetches[i].present)
    /\ [][last_call'.were_present => fetches' = fetches]_vars

\* the second load_voice call of a session asks for a voice that an earlier call
\* has fetched, and fetches nothing
C16_Witness ==
    /\ load_calls = 2
    /\ last_call.fn = "load_voice"
    /\ last_call.were_present
    /\ last_call.raised = ""
    /\ \E i \in 1..Len(fetches) : fetches[i].artifact \in last_call.asked

\* the errors raised for a file still missing after its fetch has failed
MissingAfterFetch ==
    {"Failed to download model file.", "Failed to download config file.",
     "Voice file not found, even after download attempt."}

\* C17: when a file is still missing after a failed fetch, the build_model or
\* load_voice call raises for that call only: the process does not crash and
\* goes on accepting calls.
C17_FailedFetchDoesNotCrash ==
    last_call.raised \in MissingAfterFetch => process \in {"window setup", "running"}

\* the step in which run_synthesis thread w appends its record to the ledger
RecordStep(w) == workers[w].pc = "record" /\ workers'[w].pc = "save_open"

\* the record the step appends
Appended == synthesis_results'[Len(synthesis_results')]

\* C18: every generation record run_synthesis appends has a combined path that
\* is empty or names a file that exists when the record is created.
C18_CombinedEmptyOrExisting ==
    [][\A w \in WorkerIds :
         RecordStep(w) => (Appended.combined = EmptyPath \/ Appended.combined \in files)]_vars

\* a record with the combined path of a synthesis that produced audio has just
\* been appended
C18_Witness ==
    \E w \in WorkerIds :
        /\ workers[w].pc = "save_open"
        /\ workers[w].gen[1].combined = CombinedPath(last_synthesis_timestamp)
        /\ workers[w].gen[1].combined \in files
        /\ synthesis_results[Len(synthesis_results)] = workers[w].gen[1]

\* no save_generations call is under way: the worker's append-and-save and the
\* clear handlers have finished
SavesFinished ==
    /\ ui_pc = "loop"
    /\ \A w \in WorkerIds : workers[w].pc \notin {"save_open", "save_close"}

\* C19: under every interleaving of the worker's append-and-save with
\* clear_old_results and clear_temp_files, once these operations have finished
\* the ledger file holds the in-memory ledger; stated for the sessions in which
\* no save_generations call has failed.
C19_FileHoldsLedgerAfterRaces ==
    (SavesFinished /\ ~save_failed) => load_generations(persist_file) = synthesis_results

\* C20: every chunk filepath stored in a generation record names a file that
\* exists when the record is appended to the ledger, however the running
\* synthesis interleaves with clear_temp_files.
C20_ChunkFilesExistWhenAppended ==
    [][\A w \in WorkerIds :
         RecordStep(w) =>
             \A i \in 1..Len(Appended.chunks) : Appended.chunks[i].filepath \in files]_vars

\* the step in which the synthesize call of thread w writes a file
WriteStep(w) == Len(workers'[w].written) > Len(workers[w].written)

\* the path that step writes to
WrittenPath(w) == workers'[w].written[Len(workers'[w].written)]

\* the paths the records of the ledger refer to
ReferencedPaths ==
    UNION {Range(Filepaths(synthesis_results[i].chunks)) \cup {synthesis_results[i].combined} :
           i \in 1..Len(synthesis_results)}

\* C21: a synthesize call never writes to a chunk or combined path that a
\* record of an earlier synthesis refers to, and within one call every write
\* goes to a path of its own.
C21_NoPathWrittenTwice ==
    [][\A w \in WorkerIds :
         WriteStep(w) =>
             /\ WrittenPath(w) \notin ReferencedPaths
             /\ WrittenPath(w) \notin Range(workers[w].written)]_vars

====
